---- MODULE Spec2Model ----
(***************************************************************************)
(* A model of the substrate client: the SCALE codec of its tagged-variant  *)
(* and optional types, the version-dispatched record fetches, the          *)
(* derived-index lookups and the extrinsic-submitting operations.          *)
(*                                                                         *)
(* Bytes are naturals 0..255, a byte buffer is a sequence of bytes, a Go   *)
(* string is the sequence of its bytes.  A struct value is a record, and a *)
(* type is described by a tuple whose first element names its kind, the    *)
(* way the reflective SCALE coder walks a Go type.                         *)
(***************************************************************************)
EXTENDS Integers, Sequences, FiniteSets, TLC

\* ------------------------------------------------------------------ bounds
\* highest version byte tried by a record fetch
MaxVersion == 4
\* highest discriminant byte tried by a decode
MaxByte == 4
\* highest identifier stored in a derived index or passed as an argument
MaxId == 2
\* highest module index and error index of a failure marker
MaxModule == 5
MaxError == 2

\* ------------------------------------------------------ SCALE primitives
\* result of reading from a decoder: the value read (or the target as the
\* failed read left it), the error ("nil" for none) and the bytes left
R(val, err, rest) == [val |-> val, err |-> err, rest |-> rest]

\* io.EOF / io.ErrUnexpectedEOF of the underlying reader
EOF == "EOF"

Take(bs, n) == SubSeq(bs, 1, n)
Drop(bs, n) == SubSeq(bs, n + 1, Len(bs))

\* little-endian bytes of an n byte unsigned integer
RECURSIVE EncodeLE(_, _)
EncodeLE(v, n) == IF n = 0 THEN <<>> ELSE <<v % 256>> \o EncodeLE(v \div 256, n - 1)

RECURSIVE DecodeLE(_)
DecodeLE(bs) == IF bs = <<>> THEN 0 ELSE bs[1] + 256 * DecodeLE(Tail(bs))

\* decoder.ReadOneByte()
ReadOneByte(bs) == IF bs = <<>> THEN R(0, EOF, bs) ELSE R(bs[1], "nil", Tail(bs))

\* a fixed width unsigned integer
ReadUint(bs, n) ==
    IF Len(bs) < n THEN R(0, EOF, bs) ELSE R(DecodeLE(Take(bs, n)), "nil", Drop(bs, n))

\* compact length prefix
EncodeUintCompact(n) ==
    IF n < 64 THEN <<n * 4>>
    ELSE IF n < 16384 THEN EncodeLE(n * 4 + 1, 2)
    ELSE EncodeLE(n * 4 + 2, 4)

DecodeUintCompact(bs) ==
    IF bs = <<>> THEN R(0, EOF, bs)
    ELSE LET b == bs[1]
             mode == b % 4
         IN  CASE mode = 0 -> R(b \div 4, "nil", Tail(bs))
               [] mode = 1 -> IF Len(bs) < 2 THEN R(0, EOF, bs)
                              ELSE R(DecodeLE(Take(bs, 2)) \div 4, "nil", Drop(bs, 2))
               [] mode = 2 -> IF Len(bs) < 4 THEN R(0, EOF, bs)
                              ELSE R(DecodeLE(Take(bs, 4)) \div 4, "nil", Drop(bs, 4))
               [] OTHER    -> LET l == (b \div 4) + 4
                              IN  IF Len(bs) < 1 + l THEN R(0, EOF, bs)
                                  ELSE R(DecodeLE(SubSeq(bs, 2, 1 + l)), "nil", Drop(bs, 1 + l))

\* ------------------------------------------------------------------ types
U8T == <<"u8">>
U32T == <<"u32">>
U64T == <<"u64">>
BoolT == <<"bool">>
StringT == <<"string">>
BytesT == <<"string">>
VecT(T) == <<"vec", T>>
ArrayT(n) == <<"array", n>>
StructT(fields) == <<"struct", fields>>
CustomT(name) == <<"custom", name>>

\* types.OptionU64 and types.OptionU32 of the SCALE library
OptionU64T == <<"option", U64T>>
OptionU32T == <<"option", U32T>>

NodeCertificationT == CustomT("NodeCertification")
FarmCertificationT == CustomT("FarmCertification")
RoleT == CustomT("Role")
OptionPublicConfigT == CustomT("OptionPublicConfig")
OptionFarmingPolicyLimitT == CustomT("OptionFarmingPolicyLimit")
DeletedStateT == CustomT("DeletedState")
ContractStateT == CustomT("ContractState")
ContractTypeT == CustomT("ContractType")

PublicIP ==
    StructT(<< <<"IP", StringT>>, <<"Gateway", StringT>>, <<"ContractID", U64T>> >>)

FarmingPolicyLimit ==
    StructT(<< <<"FarmingPolicyID", U32T>>, <<"Cu", OptionU64T>>, <<"Su", OptionU64T>>,
               <<"End", OptionU64T>>, <<"NodeCount", OptionU32T>>,
               <<"NodeCertification", BoolT>> >>)

PublicConfig ==
    StructT(<< <<"IPv4", StringT>>, <<"IPv6", StringT>>, <<"GWv4", StringT>>,
               <<"GWv6", StringT>>, <<"Domain", StringT>> >>)

Resources ==
    StructT(<< <<"HRU", U64T>>, <<"SRU", U64T>>, <<"CRU", U64T>>, <<"MRU", U64T>> >>)

Location == StructT(<< <<"Longitude", StringT>>, <<"Latitude", StringT>> >>)

Interface ==
    StructT(<< <<"Name", StringT>>, <<"Mac", StringT>>, <<"IPs", VecT(StringT)>> >>)

NodeContract ==
    StructT(<< <<"Node", U32T>>, <<"DeploymentData", BytesT>>, <<"DeploymentHash", StringT>>,
               <<"PublicIPsCount", U32T>>, <<"PublicIPs", VecT(PublicIP)>> >>)

NameContract == StructT(<< <<"Name", StringT>> >>)

RentContract == StructT(<< <<"Node", U32T>> >>)

\* the schema version that prefixes every persisted record
Versioned == StructT(<< <<"Version", U8T>> >>)

\* a 32 byte account id
AccountID == ArrayT(32)

\* the certification of a node
CertificationType == CustomT("NodeCertification")

Entity ==
    StructT(<< <<"Versioned", Versioned>>, <<"ID", U32T>>, <<"Name", StringT>>,
               <<"Account", AccountID>>, <<"Country", StringT>>, <<"City", StringT>> >>)

Farm ==
    StructT(<< <<"Versioned", Versioned>>, <<"ID", U32T>>, <<"Name", StringT>>,
               <<"TwinID", U32T>>, <<"PricingPolicyID", U32T>>,
               <<"CertificationType", FarmCertificationT>>,
               <<"PublicIPs", VecT(PublicIP)>>, <<"DedicatedFarm", BoolT>>,
               <<"FarmingPoliciesLimit", OptionFarmingPolicyLimitT>> >>)

Node ==
    StructT(<< <<"Versioned", Versioned>>, <<"ID", U32T>>, <<"FarmID", U32T>>,
               <<"TwinID", U32T>>, <<"Resources", Resources>>, <<"Location", Location>>,
               <<"Country", StringT>>, <<"City", StringT>>,
               <<"PublicConfig", OptionPublicConfigT>>, <<"Created", U64T>>,
               <<"FarmingPolicy", U32T>>, <<"Interfaces", VecT(Interface)>>,
               <<"CertificationType", CertificationType>> >>)

Contract ==
    StructT(<< <<"Versioned", Versioned>>, <<"State", ContractStateT>>,
               <<"ContractID", U64T>>, <<"TwinID", U32T>>,
               <<"ContractType", ContractTypeT>> >>)

\* ------------------------------------------------------------ zero values
RECURSIVE Zero(_), ZeroFields(_)

ZeroFields(fields) ==
    IF fields = <<>> THEN <<>>
    ELSE (fields[1][1] :> Zero(fields[1][2])) @@ ZeroFields(Tail(fields))

ZeroCustom(name) ==
    CASE name = "NodeCertification" -> [IsDiy |-> FALSE, IsCertified |-> FALSE]
      [] name = "FarmCertification" -> [isNotCertified |-> FALSE, isGold |-> FALSE]
      [] name = "Role" -> [IsNode |-> FALSE, IsGateway |-> FALSE]
      [] name = "DeletedState" -> [IsCanceledByUser |-> FALSE, IsOutOfFunds |-> FALSE]
      [] name = "ContractState" ->
            [IsCreated |-> FALSE, IsDeleted |-> FALSE,
             AsDeleted |-> [IsCanceledByUser |-> FALSE, IsOutOfFunds |-> FALSE],
             IsGracePeriod |-> FALSE, AsGracePeriodBlockNumber |-> 0]
      [] name = "ContractType" ->
            [IsNodeContract |-> FALSE, NodeContract |-> Zero(NodeContract),
             IsNameContract |-> FALSE, NameContract |-> Zero(NameContract),
             IsRentContract |-> FALSE, RentContract |-> Zero(RentContract)]
      [] name = "OptionPublicConfig" -> [HasValue |-> FALSE, AsValue |-> Zero(PublicConfig)]
      [] name = "OptionFarmingPolicyLimit" ->
            [HasValue |-> FALSE, AsValue |-> Zero(FarmingPolicyLimit)]

Zero(T) ==
    CASE T[1] \in {"u8", "u32", "u64"} -> 0
      [] T[1] = "bool" -> FALSE
      [] T[1] = "string" -> <<>>
      [] T[1] = "vec" -> <<>>
      [] T[1] = "array" -> [i \in 1..T[2] |-> 0]
      [] T[1] = "option" -> [HasValue |-> FALSE, Value |-> Zero(T[2])]
      [] T[1] = "struct" -> ZeroFields(T[2])
      [] T[1] = "custom" -> ZeroCustom(T[2])

\* ------------------------------------------------- tagged variant codecs
\* An encoder writes into an in-memory buffer, so PushByte never fails; an
\* Encode yields the bytes it wrote and its error.
W(out, err) == [out |-> out, err |-> err]

RECURSIVE Decode(_, _, _), Encode(_, _), DecodeFields(_, _, _), EncodeFields(_, _),
          DecodeVec(_, _, _, _), EncodeVec(_, _)

NodeCertificationDecode(p, bs) ==
    LET b == ReadOneByte(bs)
    IN  IF b.err # "nil" THEN R(p, b.err, b.rest)
        ELSE CASE b.val = 0 -> R([p EXCEPT !.IsDiy = TRUE], "nil", b.rest)
               [] b.val = 1 -> R([p EXCEPT !.IsCertified = TRUE], "nil", b.rest)
               [] OTHER -> R(p, "unknown NodeCertification value", b.rest)

NodeCertificationEncode(p) ==
    IF p.IsDiy THEN W(<<0>>, "nil")
    ELSE IF p.IsCertified THEN W(<<1>>, "nil")
    ELSE W(<<>>, "nil")

FarmCertificationDecode(p, bs) ==
    LET b == ReadOneByte(bs)
    IN  IF b.err # "nil" THEN R(p, b.err, b.rest)
        ELSE CASE b.val = 0 -> R([p EXCEPT !.isNotCertified = TRUE], "nil", b.rest)
               [] b.val = 1 -> R([p EXCEPT !.isGold = TRUE], "nil", b.rest)
               [] OTHER -> R(p, "unknown FarmCertification value", b.rest)

FarmCertificationEncode(p) ==
    IF p.isNotCertified THEN W(<<0>>, "nil")
    ELSE IF p.isGold THEN W(<<1>>, "nil")
    ELSE W(<<>>, "nil")

\* RoleDecode with an unknown byte taken as the first alternative
RoleDecodeDefaultsFirst(r, bs) ==
    LET b == ReadOneByte(bs)
    IN  IF b.err # "nil" THEN R(r, b.err, b.rest)
        ELSE CASE b.val = 1 -> R([r EXCEPT !.IsGateway = TRUE], "nil", b.rest)
               [] OTHER -> R([r EXCEPT !.IsNode = TRUE], "nil", b.rest)

RoleDecode(r, bs) ==
    LET b == ReadOneByte(bs)
    IN  IF b.err # "nil" THEN R(r, b.err, b.rest)
        ELSE CASE b.val = 0 -> R([r EXCEPT !.IsNode = TRUE], "nil", b.rest)
               [] b.val = 1 -> R([r EXCEPT !.IsGateway = TRUE], "nil", b.rest)
               [] OTHER -> R(r, "unknown CertificateType value", b.rest)

RoleEncode(r) ==
    IF r.IsNode THEN W(<<0>>, "nil")
    ELSE IF r.IsGateway THEN W(<<1>>, "nil")
    ELSE W(<<>>, "nil")

DeletedStateDecode(r, bs) ==
    LET b == ReadOneByte(bs)
    IN  IF b.err # "nil" THEN R(r, b.err, b.rest)
        ELSE CASE b.val = 0 -> R([r EXCEPT !.IsCanceledByUser = TRUE], "nil", b.rest)
               [] b.val = 1 -> R([r EXCEPT !.IsOutOfFunds = TRUE], "nil", b.rest)
               [] b.val = 2 -> R(r, "nil", b.rest)
               [] OTHER -> R(r, "unknown deleted state value", b.rest)

DeletedStateEncode(r) ==
    IF r.IsCanceledByUser THEN W(<<0>>, "nil")
    ELSE IF r.IsOutOfFunds THEN W(<<1>>, "nil")
    ELSE W(<<>>, "nil")

ContractStateDecode(r, bs) ==
    LET b == ReadOneByte(bs)
    IN  IF b.err # "nil" THEN R(r, b.err, b.rest)
        ELSE CASE b.val = 0 -> R([r EXCEPT !.IsCreated = TRUE], "nil", b.rest)
               [] b.val = 1 ->
                    LET d == Decode(DeletedStateT, r.AsDeleted, b.rest)
                        r1 == [r EXCEPT !.IsDeleted = TRUE, !.AsDeleted = d.val]
                    IN  IF d.err # "nil" THEN R(r1, "failed to get deleted state", d.rest)
                        ELSE R(r1, "nil", d.rest)
               [] b.val = 2 ->
                    LET d == Decode(U64T, r.AsGracePeriodBlockNumber, b.rest)
                        r1 == [r EXCEPT !.IsGracePeriod = TRUE,
                                        !.AsGracePeriodBlockNumber = d.val]
                    IN  IF d.err # "nil" THEN R(r1, "failed to get grace period", d.rest)
                        ELSE R(r1, "nil", d.rest)
               [] OTHER -> R(r, "unknown ContractState value", b.rest)

ContractStateEncode(r) ==
    IF r.IsCreated THEN W(<<0>>, "nil")
    ELSE IF r.IsDeleted THEN
        LET e == Encode(DeletedStateT, r.AsDeleted) IN W(<<1>> \o e.out, e.err)
    ELSE IF r.IsGracePeriod THEN
        LET e == Encode(U64T, r.AsGracePeriodBlockNumber) IN W(<<2>> \o e.out, e.err)
    ELSE W(<<>>, "nil")

ContractTypeDecode(r, bs) ==
    LET b == ReadOneByte(bs)
    IN  IF b.err # "nil" THEN R(r, b.err, b.rest)
        ELSE CASE b.val = 0 ->
                    LET d == Decode(NodeContract, r.NodeContract, b.rest)
                    IN  R([r EXCEPT !.IsNodeContract = TRUE, !.NodeContract = d.val],
                          d.err, d.rest)
               [] b.val = 1 ->
                    LET d == Decode(NameContract, r.NameContract, b.rest)
                    IN  R([r EXCEPT !.IsNameContract = TRUE, !.NameContract = d.val],
                          d.err, d.rest)
               [] b.val = 2 ->
                    LET d == Decode(RentContract, r.RentContract, b.rest)
                    IN  R([r EXCEPT !.IsRentContract = TRUE, !.RentContract = d.val],
                          d.err, d.rest)
               [] OTHER -> R(r, "unknown contract type value", b.rest)

ContractTypeEncode(r) ==
    IF r.IsNodeContract THEN
        LET e == Encode(NodeContract, r.NodeContract) IN W(<<0>> \o e.out, e.err)
    ELSE IF r.IsNameContract THEN
        LET e == Encode(NameContract, r.NameContract) IN W(<<1>> \o e.out, e.err)
    ELSE IF r.IsRentContract THEN
        LET e == Encode(RentContract, r.RentContract) IN W(<<2>> \o e.out, e.err)
    ELSE W(<<>>, "nil")

\* --------------------------------------------------------- optional types
OptionFarmingPolicyLimitEncode(m) ==
    LET i == IF m.HasValue THEN 1 ELSE 0
    IN  IF m.HasValue
        THEN LET e == Encode(FarmingPolicyLimit, m.AsValue) IN W(<<i>> \o e.out, e.err)
        ELSE W(<<i>>, "nil")

OptionFarmingPolicyLimitDecode(m, bs) ==
    LET i == Decode(U8T, 0, bs)
    IN  IF i.err # "nil" THEN R(m, i.err, i.rest)
        ELSE CASE i.val = 0 -> R(m, "nil", i.rest)
               [] i.val = 1 ->
                    LET d == Decode(FarmingPolicyLimit, m.AsValue, i.rest)
                    IN  R([m EXCEPT !.HasValue = TRUE, !.AsValue = d.val], d.err, d.rest)
               [] OTHER -> R(m, "unknown value for Option", i.rest)

OptionPublicConfigEncode(m) ==
    LET i == IF m.HasValue THEN 1 ELSE 0
    IN  IF m.HasValue
        THEN LET e == Encode(PublicConfig, m.AsValue) IN W(<<i>> \o e.out, e.err)
        ELSE W(<<i>>, "nil")

\* OptionPublicConfig.Decode that takes every byte but 1 for absent
OptionPublicConfigDecodeLenient(m, bs) ==
    LET i == Decode(U8T, 0, bs)
    IN  IF i.err # "nil" THEN R(m, i.err, i.rest)
        ELSE CASE i.val = 1 ->
                    LET d == Decode(PublicConfig, m.AsValue, i.rest)
                    IN  R([m EXCEPT !.HasValue = TRUE, !.AsValue = d.val], d.err, d.rest)
               [] OTHER -> R(m, "nil", i.rest)

OptionPublicConfigDecode(m, bs) ==
    LET i == Decode(U8T, 0, bs)
    IN  IF i.err # "nil" THEN R(m, i.err, i.rest)
        ELSE CASE i.val = 0 -> R(m, "nil", i.rest)
               [] i.val = 1 ->
                    LET d == Decode(PublicConfig, m.AsValue, i.rest)
                    IN  R([m EXCEPT !.HasValue = TRUE, !.AsValue = d.val], d.err, d.rest)
               [] OTHER -> R(m, "unknown value for Option", i.rest)

\* ----------------------------------------------- the reflective SCALE coder
\* a type with its own Decode method is decoded by that method
CustomDecode(name, p, bs) ==
    CASE name = "NodeCertification" -> NodeCertificationDecode(p, bs)
      [] name = "FarmCertification" -> FarmCertificationDecode(p, bs)
      [] name = "Role" -> RoleDecode(p, bs)
      [] name = "DeletedState" -> DeletedStateDecode(p, bs)
      [] name = "ContractState" -> ContractStateDecode(p, bs)
      [] name = "ContractType" -> ContractTypeDecode(p, bs)
      [] name = "OptionPublicConfig" -> OptionPublicConfigDecode(p, bs)
      [] name = "OptionFarmingPolicyLimit" -> OptionFarmingPolicyLimitDecode(p, bs)

\* a type with its own Encode method is encoded by that method
CustomEncode(name, v) ==
    CASE name = "NodeCertification" -> NodeCertificationEncode(v)
      [] name = "FarmCertification" -> FarmCertificationEncode(v)
      [] name = "Role" -> RoleEncode(v)
      [] name = "DeletedState" -> DeletedStateEncode(v)
      [] name = "ContractState" -> ContractStateEncode(v)
      [] name = "ContractType" -> ContractTypeEncode(v)
      [] name = "OptionPublicConfig" -> OptionPublicConfigEncode(v)
      [] name = "OptionFarmingPolicyLimit" -> OptionFarmingPolicyLimitEncode(v)

UintWidth(T) == CASE T[1] = "u8" -> 1 [] T[1] = "u32" -> 4 [] T[1] = "u64" -> 8

\* the fields of a struct, in declaration order, each into its own field
DecodeFields(fields, p, bs) ==
    IF fields = <<>> THEN R(p, "nil", bs)
    ELSE LET name == fields[1][1]
             d == Decode(fields[1][2], p[name], bs)
             p1 == [p EXCEPT ![name] = d.val]
         IN  IF d.err # "nil" THEN R(p1, d.err, d.rest)
             ELSE DecodeFields(Tail(fields), p1, d.rest)

\* n elements of a slice, each into a zero element
DecodeVec(T, n, acc, bs) ==
    IF n = 0 THEN R(acc, "nil", bs)
    ELSE LET d == Decode(T, Zero(T), bs)
         IN  IF d.err # "nil" THEN R(acc, d.err, d.rest)
             ELSE DecodeVec(T, n - 1, Append(acc, d.val), d.rest)

\* decoder.Decode(&p): p is the target's value before the call
Decode(T, p, bs) ==
    CASE T[1] \in {"u8", "u32", "u64"} ->
            LET d == ReadUint(bs, UintWidth(T))
            IN  IF d.err # "nil" THEN R(p, d.err, d.rest) ELSE d
      [] T[1] = "bool" ->
            LET b == ReadOneByte(bs)
            IN  IF b.err # "nil" THEN R(p, b.err, b.rest)
                ELSE CASE b.val = 0 -> R(FALSE, "nil", b.rest)
                       [] b.val = 1 -> R(TRUE, "nil", b.rest)
                       [] OTHER -> R(p, "unknown byte for bool", b.rest)
      [] T[1] = "string" ->
            LET l == DecodeUintCompact(bs)
            IN  IF l.err # "nil" THEN R(p, l.err, l.rest)
                ELSE IF Len(l.rest) < l.val THEN R(p, EOF, l.rest)
                ELSE R(Take(l.rest, l.val), "nil", Drop(l.rest, l.val))
      [] T[1] = "vec" ->
            LET l == DecodeUintCompact(bs)
            IN  IF l.err # "nil" THEN R(p, l.err, l.rest)
                ELSE DecodeVec(T[2], l.val, <<>>, l.rest)
      [] T[1] = "array" ->
            IF Len(bs) < T[2] THEN R(p, EOF, bs)
            ELSE R(Take(bs, T[2]), "nil", Drop(bs, T[2]))
      [] T[1] = "option" ->
            LET b == ReadOneByte(bs)
            IN  IF b.err # "nil" THEN R(p, b.err, b.rest)
                ELSE CASE b.val = 0 -> R([p EXCEPT !.HasValue = FALSE], "nil", b.rest)
                       [] b.val = 1 ->
                            LET d == Decode(T[2], p.Value, b.rest)
                            IN  R([HasValue |-> TRUE, Value |-> d.val], d.err, d.rest)
                       [] OTHER -> R(p, "unknown byte prefix for option", b.rest)
      [] T[1] = "struct" -> DecodeFields(T[2], p, bs)
      [] T[1] = "custom" -> CustomDecode(T[2], p, bs)

EncodeFields(fields, v) ==
    IF fields = <<>> THEN W(<<>>, "nil")
    ELSE LET e == Encode(fields[1][2], v[fields[1][1]])
         IN  IF e.err # "nil" THEN e
             ELSE LET r == EncodeFields(Tail(fields), v)
                  IN  W(e.out \o r.out, r.err)

EncodeVec(T, vs) ==
    IF vs = <<>> THEN W(<<>>, "nil")
    ELSE LET e == Encode(T, vs[1])
         IN  IF e.err # "nil" THEN e
             ELSE LET r == EncodeVec(T, Tail(vs))
                  IN  W(e.out \o r.out, r.err)

\* encoder.Encode(v)
Encode(T, v) ==
    CASE T[1] \in {"u8", "u32", "u64"} -> W(EncodeLE(v, UintWidth(T)), "nil")
      [] T[1] = "bool" -> W(IF v THEN <<1>> ELSE <<0>>, "nil")
      [] T[1] = "string" -> W(EncodeUintCompact(Len(v)) \o v, "nil")
      [] T[1] = "vec" ->
            LET e == EncodeVec(T[2], v) IN W(EncodeUintCompact(Len(v)) \o e.out, e.err)
      [] T[1] = "array" -> W(v, "nil")
      [] T[1] = "option" ->
            IF v.HasValue
            THEN LET e == Encode(T[2], v.Value) IN W(<<1>> \o e.out, e.err)
            ELSE W(<<0>>, "nil")
      [] T[1] = "struct" -> EncodeFields(T[2], v)
      [] T[1] = "custom" -> CustomEncode(T[2], v)

\* types.DecodeFromBytes(raw, &target) with a zero target; bytes left over
\* after the last field are ignored
DecodeFromBytes(T, raw) == Decode(T, Zero(T), raw)

\* types.EncodeToBytes(v)
EncodeToBytes(T, v) == Encode(T, v)

\* ------------------------------------------------------------ state
VARIABLES
    codec,  \* a codec session: the type, the bytes on the wire, what Decode
            \* made of them, what Encode wrote for that value, and what a
            \* second Decode made of the written bytes
    op,     \* the client operation called ("idle" before the call)
    args,   \* its arguments
    chain,  \* what the chain and the other collaborators answer to the calls
            \* the operation may make
    ret,    \* what it returned
    trace   \* the calls it made to its collaborators, in order

vars == <<codec, op, args, chain, ret, trace>>

\* --------------------------------------------------------- codec sessions
VariantTypes ==
    {NodeCertificationT, FarmCertificationT, RoleT, DeletedStateT, ContractStateT,
     ContractTypeT}

OptionTypes == {OptionPublicConfigT, OptionFarmingPolicyLimitT}

\* the discriminant bytes a variant type knows
Known(T) ==
    IF T \in {NodeCertificationT, FarmCertificationT, RoleT} \cup OptionTypes
    THEN {0, 1} ELSE {0, 1, 2}

\* the boolean discriminant flags of a variant value
Flags(T, v) ==
    CASE T = NodeCertificationT -> <<v.IsDiy, v.IsCertified>>
      [] T = FarmCertificationT -> <<v.isNotCertified, v.isGold>>
      [] T = RoleT -> <<v.IsNode, v.IsGateway>>
      [] T = DeletedStateT -> <<v.IsCanceledByUser, v.IsOutOfFunds>>
      [] T = ContractStateT -> <<v.IsCreated, v.IsDeleted, v.IsGracePeriod>>
      [] T = ContractTypeT -> <<v.IsNodeContract, v.IsNameContract, v.IsRentContract>>

NumSet(fl) == Cardinality({i \in DOMAIN fl : fl[i]})

SampleNodeContract ==
    [Node |-> 1, DeploymentData |-> <<7>>, DeploymentHash |-> <<97, 98>>,
     PublicIPsCount |-> 1,
     PublicIPs |-> << [IP |-> <<49>>, Gateway |-> <<>>, ContractID |-> 300] >>]

SamplePublicConfig ==
    [IPv4 |-> <<49>>, IPv6 |-> <<>>, GWv4 |-> <<50>>, GWv6 |-> <<>>, Domain |-> <<97>>]

SampleFarmingPolicyLimit ==
    [FarmingPolicyID |-> 1, Cu |-> [HasValue |-> TRUE, Value |-> 5],
     Su |-> [HasValue |-> FALSE, Value |-> 0], End |-> [HasValue |-> TRUE, Value |-> 300],
     NodeCount |-> [HasValue |-> TRUE, Value |-> 2], NodeCertification |-> TRUE]

\* what may follow the discriminant byte on the wire: nothing, a nested
\* discriminant, a cut-off payload, and payloads of the type's alternatives
Tails(T) ==
    {<<>>, <<1, 0>>}
    \cup {<<b>> : b \in 0..MaxByte}
    \cup (CASE T = ContractStateT -> {EncodeLE(v, 8) : v \in {0, 300}}
            [] T = ContractTypeT ->
                 {Encode(NodeContract, Zero(NodeContract)).out,
                  Encode(NodeContract, SampleNodeContract).out,
                  Encode(NameContract, [Name |-> <<97>>]).out,
                  Encode(RentContract, [Node |-> 1]).out}
            [] T = OptionPublicConfigT ->
                 {Encode(PublicConfig, Zero(PublicConfig)).out,
                  Encode(PublicConfig, SamplePublicConfig).out}
            [] T = OptionFarmingPolicyLimitT ->
                 {Encode(FarmingPolicyLimit, Zero(FarmingPolicyLimit)).out,
                  Encode(FarmingPolicyLimit, SampleFarmingPolicyLimit).out}
            [] OTHER -> {})

Wires(T) == {<<>>} \cup {<<b>> \o t : b \in 0..MaxByte, t \in Tails(T)}

NoDec == R([nil |-> TRUE], "nil", <<>>)
NoEnc == W(<<>>, "nil")

CodecOff == [phase |-> "off", ty |-> <<"none">>, wire |-> <<>>,
             dec |-> NoDec, enc |-> NoEnc, dec2 |-> NoDec]

OpsOff ==
    /\ op = "off" /\ trace = <<>>
    /\ args = [id |-> 0, name |-> <<>>, twin |-> 0]
    /\ chain = [client |-> "off"]
    /\ ret = [id |-> 0, rec |-> [nil |-> TRUE]]

InitCodec ==
    /\ \E T \in VariantTypes \cup OptionTypes : \E w \in Wires(T) :
          codec = [phase |-> "wire", ty |-> T, wire |-> w,
                   dec |-> NoDec, enc |-> NoEnc, dec2 |-> NoDec]
    /\ OpsOff

\* Decode into a fresh value: the bytes on the wire, or the bytes Encode wrote
DecodeStep ==
    /\ \/ /\ codec.phase = "wire"
          /\ codec' = [codec EXCEPT !.phase = "decoded",
                                    !.dec = DecodeFromBytes(codec.ty, codec.wire)]
       \/ /\ codec.phase = "encoded"
          /\ codec.enc.err = "nil"
          /\ codec' = [codec EXCEPT !.phase = "redecoded",
                                    !.dec2 = DecodeFromBytes(codec.ty, codec.enc.out)]
    /\ UNCHANGED <<op, args, chain, ret, trace>>

\* Encode of a value that a Decode produced
EncodeStep ==
    /\ codec.phase = "decoded"
    /\ codec.dec.err = "nil"
    /\ codec' = [codec EXCEPT !.phase = "encoded",
                              !.enc = EncodeToBytes(codec.ty, codec.dec.val)]
    /\ UNCHANGED <<op, args, chain, ret, trace>>

NextCodec == DecodeStep \/ EncodeStep

SpecCodec == InitCodec /\ [][NextCodec]_vars

\* ------------------------------------------------------------- errors
\* an error: its kind (the sentinel or cause that errors.Is finds under the
\* wrapping), the text it was wrapped with, and for a dispatch error the
\* module and error index the chain reported
E(kind, msg) == [kind |-> kind, msg |-> msg, module |-> -1, error |-> -1]
Nil == E("nil", "")
ErrNotFound(msg) == E("ErrNotFound", msg)
ErrUnknownVersion == E("ErrUnknownVersion", "")

\* a nil pointer result
NilPtr == [nil |-> TRUE]

\* what an operation hands back: its value, its error, the calls it made
Out(val, err, tr) == [val |-> val, err |-> err, trace |-> tr]

\* --------------------------------------------------------- record fetches
\* An operation takes c, the answers of its collaborators, and yields its
\* result with the calls it made.  "getClient" stands for s.getClient() and
\* s.pool.Get() alike.  types.EncodeToBytes of an integer or a string key
\* part writes to memory and has no failing case, so its error branch is
\* left out.
\* the version of a raw record: its first byte
getVersion(raw) ==
    LET d == DecodeFromBytes(Versioned, raw)
    IN  IF d.err # "nil" THEN [version |-> 0, err |-> E("ErrUnknownVersion", "failed to load version")]
        ELSE [version |-> d.val.Version, err |-> Nil]

GetEntity(id, c) ==
    IF c.client = "err" THEN Out(NilPtr, E("ClientError", ""), <<"getClient">>)
    ELSE IF c.key = "err"
    THEN Out(NilPtr, E("KeyError", "failed to create substrate query key"),
             <<"getClient", "CreateStorageKey">>)
    ELSE LET tr == <<"getClient", "CreateStorageKey", "GetStorageRawLatest">>
         IN  IF c.raw.err THEN Out(NilPtr, E("RpcError", "failed to lookup entity"), tr)
             ELSE IF Len(c.raw.data) = 0 THEN Out(NilPtr, ErrNotFound("entity not found"), tr)
             ELSE LET ver == getVersion(c.raw.data)
                  IN  IF ver.err # Nil THEN Out(NilPtr, ver.err, tr \o <<"getVersion">>)
                      ELSE IF ver.version \in {1}
                      THEN LET d == DecodeFromBytes(Entity, c.raw.data)
                               tr2 == tr \o <<"getVersion", "DecodeFromBytes">>
                           IN  IF d.err # "nil"
                               THEN Out(NilPtr, E("DecodeError", "failed to load object"), tr2)
                               ELSE Out(d.val, Nil, tr2)
                      ELSE Out(NilPtr, ErrUnknownVersion, tr \o <<"getVersion">>)

\* GetFarm with version 1 read under a layout without FarmingPoliciesLimit
GetFarmOldLayoutV1(id, c) ==
    IF c.client = "err" THEN Out(NilPtr, E("ClientError", ""), <<"getClient">>)
    ELSE IF c.key = "err"
    THEN Out(NilPtr, E("KeyError", "failed to create substrate query key"),
             <<"getClient", "CreateStorageKey">>)
    ELSE LET tr == <<"getClient", "CreateStorageKey", "GetStorageRawLatest">>
         IN  IF c.raw.err THEN Out(NilPtr, E("RpcError", "failed to lookup entity"), tr)
             ELSE IF Len(c.raw.data) = 0 THEN Out(NilPtr, ErrNotFound("farm not found"), tr)
             ELSE LET ver == getVersion(c.raw.data)
                  IN  IF ver.err # Nil THEN Out(NilPtr, ver.err, tr \o <<"getVersion">>)
                      ELSE IF ver.version \in {3, 2, 1}
                      THEN LET d == IF ver.version = 1
                                    THEN DecodeFields(SubSeq(Farm[2], 1, Len(Farm[2]) - 1),
                                                      Zero(Farm), c.raw.data)
                                    ELSE DecodeFromBytes(Farm, c.raw.data)
                               tr2 == tr \o <<"getVersion", "DecodeFromBytes">>
                           IN  IF d.err # "nil"
                               THEN Out(NilPtr, E("DecodeError", "failed to load object"), tr2)
                               ELSE Out(d.val, Nil, tr2)
                      ELSE Out(NilPtr, ErrUnknownVersion, tr \o <<"getVersion">>)

GetFarm(id, c) ==
    IF c.client = "err" THEN Out(NilPtr, E("ClientError", ""), <<"getClient">>)
    ELSE IF c.key = "err"
    THEN Out(NilPtr, E("KeyError", "failed to create substrate query key"),
             <<"getClient", "CreateStorageKey">>)
    ELSE LET tr == <<"getClient", "CreateStorageKey", "GetStorageRawLatest">>
         IN  IF c.raw.err THEN Out(NilPtr, E("RpcError", "failed to lookup entity"), tr)
             ELSE IF Len(c.raw.data) = 0 THEN Out(NilPtr, ErrNotFound("farm not found"), tr)
             ELSE LET ver == getVersion(c.raw.data)
                  IN  IF ver.err # Nil THEN Out(NilPtr, ver.err, tr \o <<"getVersion">>)
                      ELSE IF ver.version \in {3, 2, 1}
                      THEN LET d == DecodeFromBytes(Farm, c.raw.data)
                               tr2 == tr \o <<"getVersion", "DecodeFromBytes">>
                           IN  IF d.err # "nil"
                               THEN Out(NilPtr, E("DecodeError", "failed to load object"), tr2)
                               ELSE Out(d.val, Nil, tr2)
                      ELSE Out(NilPtr, ErrUnknownVersion, tr \o <<"getVersion">>)

\* getNode with version 3 let through to the decode
getNodeAcceptsV3(c) ==
    LET tr == <<"GetStorageRawLatest">>
    IN  IF c.raw.err THEN Out(NilPtr, E("RpcError", "failed to lookup entity"), tr)
        ELSE IF Len(c.raw.data) = 0 THEN Out(NilPtr, ErrNotFound("node not found"), tr)
        ELSE LET ver == getVersion(c.raw.data)
             IN  IF ver.err # Nil THEN Out(NilPtr, ver.err, tr \o <<"getVersion">>)
                 ELSE IF ver.version \in {0, 1, 2, 3}
                 THEN LET d == DecodeFromBytes(Node, c.raw.data)
                          tr2 == tr \o <<"getVersion", "DecodeFromBytes">>
                      IN  IF d.err # "nil"
                          THEN Out(NilPtr, E("DecodeError", "failed to load object"), tr2)
                          ELSE Out(d.val, Nil, tr2)
                 ELSE Out(NilPtr, ErrUnknownVersion, tr \o <<"getVersion">>)

getNode(c) ==
    LET tr == <<"GetStorageRawLatest">>
    IN  IF c.raw.err THEN Out(NilPtr, E("RpcError", "failed to lookup entity"), tr)
        ELSE IF Len(c.raw.data) = 0 THEN Out(NilPtr, ErrNotFound("node not found"), tr)
        ELSE LET ver == getVersion(c.raw.data)
             IN  IF ver.err # Nil THEN Out(NilPtr, ver.err, tr \o <<"getVersion">>)
                 ELSE IF ver.version \in {0, 1, 2}
                 THEN LET d == DecodeFromBytes(Node, c.raw.data)
                          tr2 == tr \o <<"getVersion", "DecodeFromBytes">>
                      IN  IF d.err # "nil"
                          THEN Out(NilPtr, E("DecodeError", "failed to load object"), tr2)
                          ELSE Out(d.val, Nil, tr2)
                 ELSE Out(NilPtr, ErrUnknownVersion, tr \o <<"getVersion">>)

GetNode(id, c) ==
    IF c.client = "err" THEN Out(NilPtr, E("ClientError", ""), <<"getClient">>)
    ELSE IF c.key = "err"
    THEN Out(NilPtr, E("KeyError", "failed to create substrate query key"),
             <<"getClient", "CreateStorageKey">>)
    ELSE LET o == getNode(c)
         IN  Out(o.val, o.err, <<"getClient", "CreateStorageKey">> \o o.trace)

\* getContract without the check for an empty buffer
getContractNoEmptyCheck(c) ==
    LET tr == <<"GetStorageRawLatest">>
    IN  IF c.raw.err THEN Out(NilPtr, E("RpcError", "failed to lookup contract"), tr)
        ELSE LET d == DecodeFromBytes(Contract, c.raw.data)
                 tr2 == tr \o <<"DecodeFromBytes">>
             IN  IF d.err # "nil"
                 THEN Out(NilPtr, E("DecodeError", "failed to load object"), tr2)
                 ELSE Out(d.val, Nil, tr2)

getContract(c) ==
    LET tr == <<"GetStorageRawLatest">>
    IN  IF c.raw.err THEN Out(NilPtr, E("RpcError", "failed to lookup contract"), tr)
        ELSE IF Len(c.raw.data) = 0 THEN Out(NilPtr, ErrNotFound("contract not found"), tr)
        ELSE LET d == DecodeFromBytes(Contract, c.raw.data)
                 tr2 == tr \o <<"DecodeFromBytes">>
             IN  IF d.err # "nil"
                 THEN Out(NilPtr, E("DecodeError", "failed to load object"), tr2)
                 ELSE Out(d.val, Nil, tr2)

GetContract(id, c) ==
    IF c.client = "err" THEN Out(NilPtr, E("ClientError", ""), <<"getClient">>)
    ELSE IF c.key = "err"
    THEN Out(NilPtr, E("KeyError", "failed to create substrate query key"),
             <<"getClient", "CreateStorageKey">>)
    ELSE LET o == getContract(c)
         IN  Out(o.val, o.err, <<"getClient", "CreateStorageKey">> \o o.trace)

\* ------------------------------------------------- derived-index lookups
\* cl.RPC.State.GetStorageLatest(key, &target): an rpc error, or no value at
\* the key (the target keeps its value), or the stored value decoded into
\* the target
GetStorageLatest(stored, target) ==
    CASE stored.kind = "err" -> [ok |-> FALSE, err |-> TRUE, target |-> target]
      [] stored.kind = "absent" -> [ok |-> FALSE, err |-> FALSE, target |-> target]
      [] stored.kind = "value" -> [ok |-> TRUE, err |-> FALSE, target |-> stored.v]

GetNodeByTwinID(twin, c) ==
    IF c.client = "err" THEN Out(0, E("ClientError", ""), <<"getClient">>)
    ELSE IF c.key = "err"
    THEN Out(0, E("KeyError", "failed to create substrate query key"),
             <<"getClient", "CreateStorageKey">>)
    ELSE LET g == GetStorageLatest(c.stored, 0)
             tr == <<"getClient", "CreateStorageKey", "GetStorageLatest">>
         IN  IF g.err THEN Out(0, E("RpcError", "failed to lookup entity"), tr)
             ELSE IF ~g.ok \/ g.target = 0 THEN Out(0, ErrNotFound("node not found"), tr)
             ELSE Out(g.target, Nil, tr)

\* GetContractWithHash without the check for identifier 0
GetContractWithHashNoZeroCheck(node, hash, c) ==
    IF c.client = "err" THEN Out(0, E("ClientError", ""), <<"getClient">>)
    ELSE IF c.key = "err"
    THEN Out(0, E("KeyError", "failed to create substrate query key"),
             <<"getClient", "CreateStorageKey">>)
    ELSE LET g == GetStorageLatest(c.stored, 0)
             tr == <<"getClient", "CreateStorageKey", "GetStorageLatest">>
         IN  IF g.err THEN Out(0, E("RpcError", "failed to lookup contracts"), tr)
             ELSE Out(g.target, Nil, tr)

GetContractWithHash(node, hash, c) ==
    IF c.client = "err" THEN Out(0, E("ClientError", ""), <<"getClient">>)
    ELSE IF c.key = "err"
    THEN Out(0, E("KeyError", "failed to create substrate query key"),
             <<"getClient", "CreateStorageKey">>)
    ELSE LET g == GetStorageLatest(c.stored, 0)
             tr == <<"getClient", "CreateStorageKey", "GetStorageLatest">>
         IN  IF g.err THEN Out(0, E("RpcError", "failed to lookup contracts"), tr)
             ELSE IF g.target = 0 THEN Out(0, ErrNotFound("contract not found"), tr)
             ELSE Out(g.target, Nil, tr)

GetContractIDByNameRegistration(name, c) ==
    IF c.client = "err" THEN Out(0, E("ClientError", ""), <<"getClient">>)
    ELSE IF c.key = "err"
    THEN Out(0, E("KeyError", "failed to create substrate query key"),
             <<"getClient", "CreateStorageKey">>)
    ELSE LET g == GetStorageLatest(c.stored, 0)
             tr == <<"getClient", "CreateStorageKey", "GetStorageLatest">>
         IN  IF g.err THEN Out(0, E("RpcError", "failed to lookup contracts"), tr)
             ELSE IF g.target = 0 THEN Out(0, ErrNotFound("contract not found"), tr)
             ELSE Out(g.target, Nil, tr)

\* ------------------------------------------------ extrinsic submission
\* errors.Wrap(err, msg): the cause stays, the text is put in front
Wrap(err, msg) == [err EXCEPT !.msg = msg]

\* s.Call: sign the call, submit it and wait until a block includes it; the
\* result carries the hash of that block and nothing else
Call(c) ==
    IF ~c.block.included
    THEN [hash |-> 0, err |-> E("SubmitError", "failed to make call"),
          trace |-> <<"Sign", "Submit">>]
    ELSE [hash |-> c.block.hash, err |-> Nil, trace |-> <<"Sign", "Submit", "Included">>]

\* s.checkForError: read the events of the including block for the signer
\* and look for the terminal dispatch event
checkForError(c, blockHash) ==
    CASE c.block.marker = "success" -> Nil
      [] c.block.marker = "failed" ->
            [kind |-> "DispatchError", msg |-> "", module |-> c.block.module,
             error |-> c.block.error]
      [] OTHER -> E("IndeterminateOutcome", "")

CreateNode(identity, node, c) ==
    IF c.client = "err" THEN Out(0, E("ClientError", ""), <<"getClient">>)
    ELSE IF node.TwinID = 0
    THEN Out(0, E("ValidationError", "twin id is required"), <<"getClient">>)
    ELSE IF c.newCall = "err"
    THEN Out(0, E("BuildError", "failed to create call"), <<"getClient", "NewCall">>)
    ELSE LET call == Call(c)
             tr == <<"getClient", "NewCall">> \o call.trace
         IN  IF call.err # Nil THEN Out(0, Wrap(call.err, "failed to create node"), tr)
             ELSE LET o == GetNodeByTwinID(node.TwinID, c.lookup)
                  IN  Out(o.val, o.err, tr \o o.trace)

\* UpdateNode that checks the twin only after the call was built
UpdateNodeValidatesLate(identity, node, c) ==
    IF c.client = "err" THEN Out(0, E("ClientError", ""), <<"getClient">>)
    ELSE IF c.newCall = "err"
    THEN Out(0, E("BuildError", "failed to create call"), <<"getClient", "NewCall">>)
    ELSE IF node.TwinID = 0
    THEN Out(0, E("ValidationError", "twin id is required"), <<"getClient", "NewCall">>)
    ELSE LET call == Call(c)
             tr == <<"getClient", "NewCall">> \o call.trace
         IN  IF call.err # Nil THEN Out(0, Wrap(call.err, "failed to update node"), tr)
             ELSE LET o == GetNodeByTwinID(node.TwinID, c.lookup)
                  IN  Out(o.val, o.err, tr \o o.trace)

UpdateNode(identity, node, c) ==
    IF c.client = "err" THEN Out(0, E("ClientError", ""), <<"getClient">>)
    ELSE IF node.TwinID = 0
    THEN Out(0, E("ValidationError", "twin id is required"), <<"getClient">>)
    ELSE IF c.newCall = "err"
    THEN Out(0, E("BuildError", "failed to create call"), <<"getClient", "NewCall">>)
    ELSE LET call == Call(c)
             tr == <<"getClient", "NewCall">> \o call.trace
         IN  IF call.err # Nil THEN Out(0, Wrap(call.err, "failed to update node"), tr)
             ELSE LET o == GetNodeByTwinID(node.TwinID, c.lookup)
                  IN  Out(o.val, o.err, tr \o o.trace)

UpdateNodeUptime(identity, uptime, c) ==
    IF c.client = "err" THEN Out(0, E("ClientError", ""), <<"getClient">>)
    ELSE IF c.newCall = "err"
    THEN Out(0, E("BuildError", "failed to create call"), <<"getClient", "NewCall">>)
    ELSE LET call == Call(c)
             tr == <<"getClient", "NewCall">> \o call.trace
         IN  IF call.err # Nil
             THEN Out(0, Wrap(call.err, "failed to update node uptime"), tr)
             ELSE Out(0, Nil, tr)

CreateNodeContract(identity, node, body, hash, publicIPs, c) ==
    IF c.client = "err" THEN Out(0, E("ClientError", ""), <<"getClient">>)
    ELSE IF c.newCall = "err"
    THEN Out(0, E("BuildError", "failed to create call"), <<"getClient", "NewCall">>)
    ELSE LET call == Call(c)
             tr == <<"getClient", "NewCall">> \o call.trace
         IN  IF call.err # Nil THEN Out(0, Wrap(call.err, "failed to create contract"), tr)
             ELSE LET chk == checkForError(c, call.hash)
                      tr2 == tr \o <<"checkForError">>
                  IN  IF chk # Nil THEN Out(0, chk, tr2)
                      ELSE LET o == GetContractWithHash(node, hash, c.lookup)
                           IN  Out(o.val, o.err, tr2 \o o.trace)

CreateNameContract(identity, name, c) ==
    IF c.client = "err" THEN Out(0, E("ClientError", ""), <<"getClient">>)
    ELSE IF c.newCall = "err"
    THEN Out(0, E("BuildError", "failed to create call"), <<"getClient", "NewCall">>)
    ELSE LET call == Call(c)
             tr == <<"getClient", "NewCall">> \o call.trace
         IN  IF call.err # Nil THEN Out(0, Wrap(call.err, "failed to create contract"), tr)
             ELSE LET chk == checkForError(c, call.hash)
                      tr2 == tr \o <<"checkForError">>
                  IN  IF chk # Nil THEN Out(0, chk, tr2)
                      ELSE LET o == GetContractIDByNameRegistration(name, c.lookup)
                           IN  Out(o.val, o.err, tr2 \o o.trace)

CreateRentContract(identity, node, c) ==
    IF c.client = "err" THEN Out(0, E("ClientError", ""), <<"getClient">>)
    ELSE IF c.newCall = "err"
    THEN Out(0, E("BuildError", "failed to create call"), <<"getClient", "NewCall">>)
    ELSE LET call == Call(c)
             tr == <<"getClient", "NewCall">> \o call.trace
         IN  IF call.err # Nil
             THEN Out(0, Wrap(call.err, "failed to create rent contract"), tr)
             ELSE LET chk == checkForError(c, call.hash)
                      tr2 == tr \o <<"checkForError">>
                  IN  IF chk # Nil THEN Out(0, chk, tr2)
                      ELSE Out(0, Nil, tr2)

UpdateNodeContract(identity, contract, body, hash, c) ==
    IF c.client = "err" THEN Out(0, E("ClientError", ""), <<"getClient">>)
    ELSE IF c.newCall = "err"
    THEN Out(0, E("BuildError", "failed to create call"), <<"getClient", "NewCall">>)
    ELSE LET call == Call(c)
             tr == <<"getClient", "NewCall">> \o call.trace
         IN  IF call.err # Nil THEN Out(0, Wrap(call.err, "failed to update contract"), tr)
             ELSE LET chk == checkForError(c, call.hash)
                      tr2 == tr \o <<"checkForError">>
                  IN  IF chk # Nil THEN Out(0, chk, tr2)
                      ELSE Out(contract, Nil, tr2)

CancelContract(identity, contract, c) ==
    IF c.client = "err" THEN Out(0, E("ClientError", ""), <<"getClient">>)
    ELSE IF c.newCall = "err"
    THEN Out(0, E("BuildError", "failed to cancel call"), <<"getClient", "NewCall">>)
    ELSE LET call == Call(c)
             tr == <<"getClient", "NewCall">> \o call.trace
         IN  IF call.err # Nil THEN Out(0, Wrap(call.err, "failed to cancel contract"), tr)
             ELSE LET chk == checkForError(c, call.hash)
                      tr2 == tr \o <<"checkForError">>
                  IN  IF chk # Nil THEN Out(0, chk, tr2)
                      ELSE Out(0, Nil, tr2)

SetContractConsumption(identity, resources, c) ==
    IF c.client = "err" THEN Out(0, E("ClientError", ""), <<"getClient">>)
    ELSE IF c.newCall = "err"
    THEN Out(0, E("BuildError", "failed to create call"), <<"getClient", "NewCall">>)
    ELSE LET call == Call(c)
             tr == <<"getClient", "NewCall">> \o call.trace
         IN  IF call.err # Nil
             THEN Out(0, Wrap(call.err, "failed to set contract used resources"), tr)
             ELSE LET chk == checkForError(c, call.hash)
                      tr2 == tr \o <<"checkForError">>
                  IN  IF chk # Nil THEN Out(0, chk, tr2)
                      ELSE Out(0, Nil, tr2)

\* the value handed back is the hash of the including block
Report(identity, consumptions, c) ==
    IF c.client = "err" THEN Out(0, E("ClientError", ""), <<"getClient">>)
    ELSE IF c.newCall = "err"
    THEN Out(0, E("BuildError", "failed to create call"), <<"getClient", "NewCall">>)
    ELSE LET call == Call(c)
             tr == <<"getClient", "NewCall">> \o call.trace
         IN  IF call.err # Nil
             THEN Out(call.hash, Wrap(call.err, "failed to create report"), tr)
             ELSE Out(call.hash, Nil, tr)

\* ------------------------------------------- what the chain may answer
SampleEntity ==
    [Versioned |-> [Version |-> 1], ID |-> 1, Name |-> <<97>>,
     Account |-> [i \in 1..32 |-> i], Country |-> <<66, 69>>, City |-> <<>>]

SampleFarm ==
    [Versioned |-> [Version |-> 1], ID |-> 2, Name |-> <<102>>, TwinID |-> 1,
     PricingPolicyID |-> 1, CertificationType |-> [isNotCertified |-> FALSE, isGold |-> TRUE],
     PublicIPs |-> << [IP |-> <<49>>, Gateway |-> <<50>>, ContractID |-> 0] >>,
     DedicatedFarm |-> TRUE,
     FarmingPoliciesLimit |-> [HasValue |-> TRUE, AsValue |-> SampleFarmingPolicyLimit]]

SampleNode ==
    [Versioned |-> [Version |-> 1], ID |-> 1, FarmID |-> 2, TwinID |-> 1,
     Resources |-> [HRU |-> 300, SRU |-> 2, CRU |-> 4, MRU |-> 8],
     Location |-> [Longitude |-> <<49>>, Latitude |-> <<50>>],
     Country |-> <<66, 69>>, City |-> <<>>,
     PublicConfig |-> [HasValue |-> TRUE, AsValue |-> SamplePublicConfig],
     Created |-> 1, FarmingPolicy |-> 1,
     Interfaces |-> << [Name |-> <<122>>, Mac |-> <<>>, IPs |-> << <<49>> >>] >>,
     CertificationType |-> [IsDiy |-> FALSE, IsCertified |-> TRUE]]

SampleContract ==
    [Versioned |-> [Version |-> 1],
     State |-> [ZeroCustom("ContractState") EXCEPT !.IsDeleted = TRUE,
                                                   !.AsDeleted.IsOutOfFunds = TRUE],
     ContractID |-> 1, TwinID |-> 1,
     ContractType |-> [ZeroCustom("ContractType") EXCEPT !.IsNodeContract = TRUE,
                                                        !.NodeContract = SampleNodeContract]]

RecordTypes == {Entity, Farm, Node, Contract}

Samples(T) ==
    CASE T = Entity -> {Zero(Entity), SampleEntity}
      [] T = Farm -> {Zero(Farm), SampleFarm}
      [] T = Node -> {Zero(Node), SampleNode}
      [] T = Contract -> {[Zero(Contract) EXCEPT !.State.IsCreated = TRUE,
                                                 !.ContractType.IsRentContract = TRUE],
                          SampleContract}

\* the bytes after the version byte: whole records, cut-off ones and junk
Bodies(T) ==
    LET whole == {Tail(EncodeToBytes(T, v).out) : v \in Samples(T)}
    IN  whole \cup {Take(b, 6) : b \in whole} \cup {<<>>, <<9>>}

RawBuffers(T) == {<<>>} \cup {<<v>> \o b : v \in 0..MaxVersion, b \in Bodies(T)}

Answers == {"ok", "err"}

RawAnswers(T) ==
    {[err |-> TRUE, data |-> <<>>]} \cup {[err |-> FALSE, data |-> r] : r \in RawBuffers(T)}

Ids == 0..MaxId

StoredAnswers ==
    {[kind |-> "err", v |-> 0], [kind |-> "absent", v |-> 0]}
    \cup {[kind |-> "value", v |-> i] : i \in Ids}

\* the extrinsic was not included, or the block that included it holds a
\* success marker, a failure marker with its module and error index, or
\* no marker at all
NotIncluded == [included |-> FALSE, hash |-> 0, marker |-> "none", module |-> -1, error |-> -1]

Blocks ==
    {NotIncluded}
    \cup {[included |-> TRUE, hash |-> 7, marker |-> m, module |-> -1, error |-> -1] :
             m \in {"success", "none"}}
    \cup {[included |-> TRUE, hash |-> 7, marker |-> "failed", module |-> m, error |-> e] :
             m \in 0..MaxModule, e \in 0..MaxError}

\* the answers of the collaborators: the connection pool, the storage key
\* builder, the raw and the typed storage read, the call builder, the block
\* of the extrinsic, and the same for the follow-up lookup of an operation
NoLookup == [client |-> "ok", key |-> "ok", stored |-> [kind |-> "absent", v |-> 0]]

NoChain ==
    [client |-> "ok", key |-> "ok", raw |-> [err |-> FALSE, data |-> <<>>],
     stored |-> [kind |-> "absent", v |-> 0], newCall |-> "ok", block |-> NotIncluded,
     lookup |-> NoLookup]

FetchAnswers(T) ==
    {[NoChain EXCEPT !.client = a, !.key = k, !.raw = r] :
        a \in Answers, k \in Answers, r \in RawAnswers(T)}

LookupAnswers ==
    {[NoChain EXCEPT !.client = a, !.key = k, !.stored = st] :
        a \in Answers, k \in Answers, st \in StoredAnswers}

SubmitAnswers ==
    {[NoChain EXCEPT !.client = a, !.newCall = n, !.block = b] :
        a \in Answers, n \in Answers, b \in Blocks}

SubmitLookupAnswers ==
    {[c EXCEPT !.lookup = [client |-> a, key |-> k, stored |-> st]] :
        c \in SubmitAnswers, a \in Answers, k \in Answers, st \in StoredAnswers}

Identity == "alice"

NodeArgs == {[SampleNode EXCEPT !.TwinID = t] : t \in Ids}

Names == {<<>>, <<97>>}

\* the arguments of a call that matter: its numeric argument (an id, a node,
\* a contract, an uptime), its string argument (a name, a hash) and the twin
\* of its node argument
Args(id, name, twin) == [id |-> id, name |-> name, twin |-> twin]

\* ------------------------------------------------------------- actions
Init ==
    /\ codec = CodecOff
    /\ op = "idle" /\ trace = <<>>
    /\ args = Args(0, <<>>, 0)
    /\ chain = NoChain
    /\ ret = [id |-> 0, rec |-> NilPtr, err |-> Nil]

\* the client is called: the operation runs to its return
Do(name, a, c, r, tr) ==
    /\ op' = name
    /\ args' = a
    /\ chain' = c
    /\ ret' = r
    /\ trace' = tr
    /\ UNCHANGED codec

\* an operation that returns a record
DoRec(name, a, c, o) == Do(name, a, c, [id |-> 0, rec |-> o.val, err |-> o.err], o.trace)

\* an operation that returns an identifier (or a hash, or only an error)
DoId(name, a, c, o) == Do(name, a, c, [id |-> o.val, rec |-> NilPtr, err |-> o.err], o.trace)

DoGetEntity ==
    op = "idle" /\ \E id \in Ids, c \in FetchAnswers(Entity) :
        DoRec("GetEntity", Args(id, <<>>, 0), c, GetEntity(id, c))

DoGetFarm ==
    op = "idle" /\ \E id \in Ids, c \in FetchAnswers(Farm) :
        DoRec("GetFarm", Args(id, <<>>, 0), c, GetFarm(id, c))

DoGetNode ==
    op = "idle" /\ \E id \in Ids, c \in FetchAnswers(Node) :
        DoRec("GetNode", Args(id, <<>>, 0), c, GetNode(id, c))

DoGetContract ==
    op = "idle" /\ \E id \in Ids, c \in FetchAnswers(Contract) :
        DoRec("GetContract", Args(id, <<>>, 0), c, GetContract(id, c))

DoGetNodeByTwinID ==
    op = "idle" /\ \E twin \in Ids, c \in LookupAnswers :
        DoId("GetNodeByTwinID", Args(0, <<>>, twin), c, GetNodeByTwinID(twin, c))

DoGetContractWithHash ==
    op = "idle" /\ \E node \in Ids, hash \in Names, c \in LookupAnswers :
        DoId("GetContractWithHash", Args(node, hash, 0), c, GetContractWithHash(node, hash, c))

DoGetContractIDByNameRegistration ==
    op = "idle" /\ \E name \in Names, c \in LookupAnswers :
        DoId("GetContractIDByNameRegistration", Args(0, name, 0), c,
             GetContractIDByNameRegistration(name, c))

DoCreateNode ==
    op = "idle" /\ \E node \in NodeArgs, c \in SubmitLookupAnswers :
        DoId("CreateNode", Args(node.ID, <<>>, node.TwinID), c, CreateNode(Identity, node, c))

DoUpdateNode ==
    op = "idle" /\ \E node \in NodeArgs, c \in SubmitLookupAnswers :
        DoId("UpdateNode", Args(node.ID, <<>>, node.TwinID), c, UpdateNode(Identity, node, c))

DoUpdateNodeUptime ==
    op = "idle" /\ \E uptime \in Ids, c \in SubmitAnswers :
        DoId("UpdateNodeUptime", Args(uptime, <<>>, 0), c,
             UpdateNodeUptime(Identity, uptime, c))

DoCreateNodeContract ==
    op = "idle" /\ \E node \in Ids, hash \in Names, c \in SubmitLookupAnswers :
        DoId("CreateNodeContract", Args(node, hash, 0), c,
             CreateNodeContract(Identity, node, <<7>>, hash, 1, c))

DoCreateNameContract ==
    op = "idle" /\ \E name \in Names, c \in SubmitLookupAnswers :
        DoId("CreateNameContract", Args(0, name, 0), c, CreateNameContract(Identity, name, c))

DoCreateRentContract ==
    op = "idle" /\ \E node \in Ids, c \in SubmitAnswers :
        DoId("CreateRentContract", Args(node, <<>>, 0), c,
             CreateRentContract(Identity, node, c))

DoUpdateNodeContract ==
    op = "idle" /\ \E contract \in Ids, hash \in Names, c \in SubmitAnswers :
        DoId("UpdateNodeContract", Args(contract, hash, 0), c,
             UpdateNodeContract(Identity, contract, <<7>>, hash, c))

DoCancelContract ==
    op = "idle" /\ \E contract \in Ids, c \in SubmitAnswers :
        DoId("CancelContract", Args(contract, <<>>, 0), c,
             CancelContract(Identity, contract, c))

DoSetContractConsumption ==
    op = "idle" /\ \E n \in Ids, c \in SubmitAnswers :
        DoId("SetContractConsumption", Args(n, <<>>, 0), c,
             SetContractConsumption(Identity, n, c))

DoReport ==
    op = "idle" /\ \E n \in Ids, c \in SubmitAnswers :
        DoId("Report", Args(n, <<>>, 0), c, Report(Identity, n, c))

Next ==
    \/ DoGetEntity \/ DoGetFarm \/ DoGetNode \/ DoGetContract
    \/ DoGetNodeByTwinID \/ DoGetContractWithHash \/ DoGetContractIDByNameRegistration
    \/ DoCreateNode \/ DoUpdateNode \/ DoUpdateNodeUptime
    \/ DoCreateNodeContract \/ DoCreateNameContract \/ DoCreateRentContract
    \/ DoUpdateNodeContract \/ DoCancelContract \/ DoSetContractConsumption
    \/ DoReport

Spec == Init /\ [][Next]_vars

\* ================================================================ claims
Decoded == codec.phase \in {"decoded", "encoded", "redecoded"}
Encoded == codec.phase \in {"encoded", "redecoded"}

\* the payload bytes of the alternative d of a variant value
PayloadBytes(T, d, v) ==
    CASE T = ContractStateT /\ d = 1 -> Encode(DeletedStateT, v.AsDeleted).out
      [] T = ContractStateT /\ d = 2 -> Encode(U64T, v.AsGracePeriodBlockNumber).out
      [] T = ContractTypeT /\ d = 0 -> Encode(NodeContract, v.NodeContract).out
      [] T = ContractTypeT /\ d = 1 -> Encode(NameContract, v.NameContract).out
      [] T = ContractTypeT /\ d = 2 -> Encode(RentContract, v.RentContract).out
      [] OTHER -> <<>>

\* C1: for every tagged-variant type, decoding the bytes that Encode wrote
\* for a value yields, without error, a value equal to it; this includes
\* DeletedState's third alternative and a ContractState that carries one.
C1_RoundTrip ==
    (codec.phase = "redecoded" /\ codec.ty \in VariantTypes)
        => (codec.dec2.err = "nil" /\ codec.dec2.val = codec.dec.val)

\* C2: a Decode of a discriminant byte outside the type's known set returns
\* an error and leaves every discriminant flag of the value unset.
C2_UnknownDiscriminantRejected ==
    (Decoded /\ codec.ty \in VariantTypes /\ codec.wire # <<>>
        /\ codec.wire[1] \notin Known(codec.ty))
        => (codec.dec.err # "nil" /\ NumSet(Flags(codec.ty, codec.dec.val)) = 0)

C2_Witness ==
    /\ codec.phase = "decoded" /\ codec.ty = ContractTypeT
    /\ codec.wire # <<>> /\ codec.wire[1] = 3
    /\ codec.dec.err = "unknown contract type value"

\* C3: after a Decode of a tagged-variant value that returns no error,
\* exactly one of the value's discriminant flags is true.
C3_ExactlyOneFlag ==
    (Decoded /\ codec.ty \in VariantTypes /\ codec.dec.err = "nil")
        => NumSet(Flags(codec.ty, codec.dec.val)) = 1

\* C4: an Encode of a tagged-variant value that returns no error wrote one
\* discriminant byte of the type, then the payload bytes of that alternative
\* and nothing else; it never wrote zero bytes.
C4_EncodeWritesDiscriminant ==
    (Encoded /\ codec.ty \in VariantTypes /\ codec.enc.err = "nil")
        => /\ Len(codec.enc.out) >= 1
           /\ codec.enc.out[1] \in Known(codec.ty)
           /\ Tail(codec.enc.out) = PayloadBytes(codec.ty, codec.enc.out[1], codec.dec.val)

\* the storage read of a fetch went through and returned these bytes
RawRead(data) ==
    /\ op \in {"GetEntity", "GetFarm", "GetNode", "GetContract"}
    /\ chain.client = "ok" /\ chain.key = "ok" /\ ~chain.raw.err
    /\ chain.raw.data = data

Accepted(name) ==
    CASE name = "GetEntity" -> {1}
      [] name = "GetNode" -> {0, 1, 2}
      [] name = "GetFarm" -> {1, 2, 3}

Has(tr, call) == \E i \in DOMAIN tr : tr[i] = call

Before(tr, a, b) == \A j \in DOMAIN tr : tr[j] = b => \E i \in 1..(j - 1) : tr[i] = a

\* C5: on a non-empty raw buffer GetEntity accepts only version 1, GetNode
\* 0, 1, 2 and GetFarm 1, 2, 3; any other version byte gives
\* ErrUnknownVersion whatever the remaining bytes are, and the fields are
\* decoded only after the version was read and accepted.
C5_VersionGate ==
    (op \in {"GetEntity", "GetNode", "GetFarm"} /\ RawRead(chain.raw.data)
        /\ chain.raw.data # <<>>)
        => /\ (chain.raw.data[1] \notin Accepted(op))
                => (ret.err = ErrUnknownVersion /\ ~Has(trace, "DecodeFromBytes"))
           /\ (chain.raw.data[1] \in Accepted(op))
                => (ret.err.kind \in {"nil", "DecodeError"} /\ Has(trace, "DecodeFromBytes"))
           /\ Before(trace, "getVersion", "DecodeFromBytes")

C5_Witness ==
    /\ op = "GetFarm" /\ RawRead(chain.raw.data)
    /\ chain.raw.data # <<>> /\ chain.raw.data[1] = 4
    /\ DecodeFromBytes(Farm, chain.raw.data).err = "nil"
    /\ ret.err = ErrUnknownVersion

\* C6: for Entity, Node, Farm and Contract, a storage read that returns a
\* zero-length buffer makes the fetch return ErrNotFound and no record,
\* before the version is read and before anything is decoded.
C6_EmptyIsNotFound ==
    RawRead(<<>>)
        => /\ ret.err.kind = "ErrNotFound"
           /\ ret.rec = NilPtr
           /\ ~Has(trace, "getVersion") /\ ~Has(trace, "DecodeFromBytes")

C6_Witness ==
    /\ op = "GetContract" /\ RawRead(<<>>)
    /\ ret.err.kind = "ErrNotFound"
    /\ trace[Len(trace)] = "GetStorageRawLatest"

Lookups == {"GetNodeByTwinID", "GetContractWithHash", "GetContractIDByNameRegistration"}

\* C7: a derived-index lookup whose storage read succeeds but finds no value
\* or the identifier 0 returns ErrNotFound; a lookup that returns no error
\* returns the non-zero identifier read from storage.
C7_ZeroIsNotFound ==
    (op \in Lookups)
        => /\ (chain.client = "ok" /\ chain.key = "ok" /\ chain.stored.kind # "err"
                /\ (chain.stored.kind = "absent" \/ chain.stored.v = 0))
                => (ret.err.kind = "ErrNotFound" /\ ret.id = 0)
           /\ (ret.err = Nil)
                => (ret.id # 0 /\ chain.stored.kind = "value" /\ ret.id = chain.stored.v)

C7_Witness ==
    /\ op = "GetContractWithHash"
    /\ chain.client = "ok" /\ chain.key = "ok" /\ chain.stored.kind = "absent"
    /\ ret.err.kind = "ErrNotFound" /\ ret.id = 0

Creations == {"CreateNode", "CreateNodeContract", "CreateNameContract", "CreateRentContract"}

\* C8: no creation operation returns a nil error with identifier 0.
C8_NoZeroOnSuccess ==
    (op \in Creations /\ ret.err = Nil) => ret.id # 0

\* the extrinsic of the operation was included in a block
Included == op \notin {"idle", "off"} /\ Has(trace, "Included")

\* C9: when the call of CreateNode, UpdateNode, CreateNodeContract or
\* CreateNameContract is included but its dispatch fails, the operation
\* returns a dispatch error with the chain's module and error index and
\* issues no storage read afterwards.
C9_DispatchFailureStops ==
    (op \in {"CreateNode", "UpdateNode", "CreateNodeContract", "CreateNameContract"}
        /\ Included /\ chain.block.marker = "failed")
        => /\ ret.err.kind = "DispatchError"
           /\ ret.err.module = chain.block.module /\ ret.err.error = chain.block.error
           /\ ~Has(trace, "GetStorageLatest")

Submitters ==
    {"CreateNode", "UpdateNode", "UpdateNodeUptime", "CreateNodeContract",
     "CreateNameContract", "CreateRentContract", "UpdateNodeContract", "CancelContract",
     "SetContractConsumption", "Report"}

\* C10: every submission is built, signed, submitted, included and then
\* verified from the block's events; a submitting operation returns a nil
\* error only if a success marker was found, and an indeterminate-outcome
\* error if the block holds neither marker.
C10_SuccessOnlyIfVerified ==
    (op \in Submitters)
        => /\ (ret.err = Nil)
                => /\ Has(trace, "checkForError") /\ chain.block.marker = "success"
                   /\ Before(trace, "NewCall", "Sign") /\ Before(trace, "Sign", "Submit")
                   /\ Before(trace, "Submit", "Included")
                   /\ Before(trace, "Included", "checkForError")
           /\ (Included /\ chain.block.marker = "none")
                => ret.err.kind = "IndeterminateOutcome"

\* the fetch of op, run again on other answers of the chain
Refetch(c) == IF op = "GetFarm" THEN GetFarm(args.id, c) ELSE GetNode(args.id, c)

\* the record type that op fetches, and a record of it as the chain stores
\* one: every variant field with one alternative chosen
Fetched == IF op = "GetFarm" THEN Farm ELSE Node

Stored == IF op = "GetFarm" THEN SampleFarm ELSE SampleNode

\* C11: GetFarm on a non-empty buffer with a version in 1, 2, 3 and GetNode
\* with a version in 0, 1, 2 decode under one layout: the same buffer with
\* any other accepted version byte gives the same error or, on success, a
\* record that carries that version and is equal in every other field; a
\* buffer that holds a whole stored record decodes to that record.
C11_LayoutIndependent ==
    (op \in {"GetFarm", "GetNode"} /\ RawRead(chain.raw.data)
        /\ chain.raw.data # <<>> /\ chain.raw.data[1] \in Accepted(op))
        => /\ \A v \in Accepted(op) :
                LET o == Refetch([chain EXCEPT !.raw.data[1] = v])
                IN  /\ o.err = ret.err
                    /\ (ret.err = Nil)
                         => /\ o.val.Versioned.Version = v
                            /\ [o.val EXCEPT !.Versioned = ret.rec.Versioned] = ret.rec
           /\ (Tail(chain.raw.data) = Tail(EncodeToBytes(Fetched, Stored).out))
                => /\ ret.err = Nil
                   /\ ret.rec = [Stored EXCEPT !.Versioned.Version = chain.raw.data[1]]

C11_Witness ==
    /\ op = "GetFarm" /\ RawRead(chain.raw.data)
    /\ chain.raw.data # <<>> /\ chain.raw.data[1] = 3
    /\ ret.err = Nil
    /\ ret.rec = [SampleFarm EXCEPT !.Versioned.Version = 3]
    /\ GetFarm(args.id, [chain EXCEPT !.raw.data[1] = 2]).val.FarmingPoliciesLimit.HasValue

\* the payload type of an optional type
Payload(T) == IF T = OptionPublicConfigT THEN PublicConfig ELSE FarmingPolicyLimit

\* C12: for OptionPublicConfig and OptionFarmingPolicyLimit, Decode into a
\* fresh value of byte 0 yields absent and consumes nothing more, of byte 1
\* yields present with the payload as the payload type's decoder reads it,
\* and of any other byte fails; Encode writes byte 0 alone for absent and
\* byte 1 followed by the payload's encoding for present; decoding what
\* Encode wrote reproduces the value.
C12_OptionCodec ==
    (codec.ty \in OptionTypes)
        => /\ (Decoded /\ codec.wire # <<>>)
                => LET b == codec.wire[1]
                       p == Decode(Payload(codec.ty), Zero(Payload(codec.ty)), Tail(codec.wire))
                   IN  /\ (b = 0) => /\ codec.dec.err = "nil"
                                     /\ codec.dec.val = Zero(codec.ty)
                                     /\ codec.dec.rest = Tail(codec.wire)
                       /\ (b = 1) => /\ codec.dec.val.HasValue
                                     /\ codec.dec.val.AsValue = p.val
                                     /\ codec.dec.err = p.err
                                     /\ codec.dec.rest = p.rest
                       /\ (b \notin {0, 1}) => /\ codec.dec.err # "nil"
                                               /\ ~codec.dec.val.HasValue
           /\ Encoded
                => /\ codec.enc.err = "nil"
                   /\ codec.enc.out =
                        IF codec.dec.val.HasValue
                        THEN <<1>> \o Encode(Payload(codec.ty), codec.dec.val.AsValue).out
                        ELSE <<0>>
           /\ (codec.phase = "redecoded")
                => (codec.dec2.err = "nil" /\ codec.dec2.val = codec.dec.val)

C12_Witness ==
    /\ codec.phase = "redecoded" /\ codec.ty = OptionPublicConfigT
    /\ codec.wire = <<1>> \o Encode(PublicConfig, SamplePublicConfig).out
    /\ codec.dec.val = [HasValue |-> TRUE, AsValue |-> SamplePublicConfig]
    /\ codec.enc.out = codec.wire
    /\ codec.dec2.val = codec.dec.val

\* C13: CreateNode and UpdateNode called with a node whose TwinID is 0
\* return identifier 0 and a non-nil error; no call is built, nothing is
\* signed or submitted and no storage read is issued: once the connection
\* is there, the twin is checked before the call builder is invoked.
C13_TwinRequired ==
    (op \in {"CreateNode", "UpdateNode"} /\ args.twin = 0)
        => /\ ret.id = 0 /\ ret.err # Nil
           /\ \A call \in {"NewCall", "Sign", "Submit", "Included", "checkForError",
                           "CreateStorageKey", "GetStorageLatest", "GetStorageRawLatest"} :
                ~Has(trace, call)
           /\ (chain.client = "ok")
                => (ret.err.kind = "ValidationError" /\ ret.err.msg = "twin id is required")

C13_Witness ==
    /\ op = "UpdateNode" /\ args.twin = 0
    /\ chain.client = "ok" /\ chain.newCall = "ok" /\ chain.block.marker = "success"
    /\ chain.lookup.stored = [kind |-> "value", v |-> 1]
    /\ ret.id = 0 /\ ret.err.kind = "ValidationError"
    /\ trace = <<"getClient">>

====
